---- MODULE Spec2Model ----
(***************************************************************************)
(* Model of scripts/dispatch.py, the output dispatcher of the veille       *)
(* skill: format detection, the three renderers, the four output handlers  *)
(* with the mail fallback chain, the dispatch loop and the CLI entry       *)
(* point.                                                                  *)
(*                                                                         *)
(* Python values are modelled as follows.  A dict is a function whose      *)
(* DOMAIN is the set of keys present.  A list is a sequence.  A piece of   *)
(* text taken from the digest is a sequence of one-character strings; a    *)
(* rendered text is a sequence of tokens, a token being either one such    *)
(* character or a literal piece of markup written by the renderer.  A call *)
(* that can raise yields a record [exc, val]: exc = "" when the call       *)
(* returned val, otherwise exc names the exception that propagates.        *)
(***************************************************************************)
EXTENDS Integers, Sequences, FiniteSets, TLC

\* ------------------------------------------------------------------------
\* Bounds of the model
\* ------------------------------------------------------------------------

\* longest channel list (config["outputs"] or a profile) that is explored
MaxChannels == 2

\* longest article list (articles, ghost_picks, a category's articles)
MaxArticles == 2

\* ------------------------------------------------------------------------
\* Python helpers
\* ------------------------------------------------------------------------

\* d.get(k, default)
Get(d, k, default) == IF k \in DOMAIN d THEN d[k] ELSE default

\* the dict d without the keys outside S
Restrict(d, S) == [k \in (DOMAIN d) \cap S |-> d[k]]

\* a call that returned v / a call that raised exception e
Returned(v) == [exc |-> "", val |-> v]
Raised(e) == [exc |-> e, val |-> <<>>]

RECURSIVE Flatten(_)
\* concatenation of a sequence of sequences
Flatten(ss) == IF ss = <<>> THEN <<>> ELSE Head(ss) \o Flatten(Tail(ss))

RECURSIVE Join(_, _)
\* sep.join(ss) on token sequences
Join(sep, ss) ==
    IF ss = <<>> THEN <<>>
    ELSE IF Len(ss) = 1 THEN Head(ss)
    ELSE Head(ss) \o <<sep>> \o Join(sep, Tail(ss))

Digit == <<"0", "1", "2", "3", "4", "5", "6", "7", "8", "9">>

RECURSIVE Str(_)
\* str(n) of a natural number, as tokens
Str(n) == IF n < 10 THEN <<Digit[n + 1]>> ELSE Str(n \div 10) \o <<Digit[(n % 10) + 1]>>

\* code points of the characters that occur in the digests of the model
Ord(c) ==
    CASE c = "\"" -> 34
      [] c = "&" -> 38
      [] c = "<" -> 60
      [] c = ">" -> 62
      [] c = "?" -> 63
      [] c = "A" -> 65
      [] c = "B" -> 66
      [] c = "X" -> 88
      [] c = "Y" -> 89
      [] c = "d" -> 100
      [] c = "r" -> 114
      [] c = "u" -> 117
      [] c = "v" -> 118

RECURSIVE StrLess(_, _)
\* s < t on Python strings (lexicographic on code points)
StrLess(s, t) ==
    IF t = <<>> THEN FALSE
    ELSE IF s = <<>> THEN TRUE
    ELSE IF Head(s) # Head(t) THEN Ord(Head(s)) < Ord(Head(t))
    ELSE StrLess(Tail(s), Tail(t))

RECURSIVE Sorted(_)
\* sorted(S) for a set S of strings
Sorted(S) ==
    IF S = {} THEN <<>>
    ELSE LET m == CHOOSE x \in S : \A y \in S \ {x} : StrLess(x, y)
         IN  <<m>> \o Sorted(S \ {m})

\* the timestamp of datetime.now(...).strftime(...), one opaque token
Now == "NOW"

\* ------------------------------------------------------------------------
\* Format detection
\* ------------------------------------------------------------------------

_is_processed(data) == "categories" \in DOMAIN data

\* ------------------------------------------------------------------------
\* Formatters
\* ------------------------------------------------------------------------

RECURSIVE SumArticles(_)
\* sum(len(c.get("articles", [])) for c in categories)
SumArticles(categories) ==
    IF categories = <<>> THEN 0
    ELSE Len(Get(Head(categories), "articles", <<>>)) + SumArticles(Tail(categories))

\* the categories whose count line format_recap writes
RecapCats(categories) ==
    SelectSeq(categories, LAMBDA c : Len(Get(c, "articles", <<>>)) # 0)

\* cat['name'] is evaluated for a category with articles and no name
RecapKeyError(data) ==
    /\ _is_processed(data)
    /\ \E i \in 1..Len(RecapCats(data["categories"])) :
          "name" \notin DOMAIN RecapCats(data["categories"])[i]

RecapLines(data) ==
    IF _is_processed(data)
    THEN LET categories == Get(data, "categories", <<>>)
             count == SumArticles(categories)
             ghost_picks == Get(data, "ghost_picks", <<>>)
             shown == RecapCats(categories)
         IN  << <<"*Veille tech - ", Now, "*">>, Str(count) \o <<" articles">> >>
             \o [i \in 1..Len(shown) |->
                   <<"- ">> \o shown[i]["name"] \o <<": ">>
                   \o Str(Len(Get(shown[i], "articles", <<>>)))]
             \o (IF ghost_picks # <<>>
                 THEN << <<"\n", "(pen) ">> \o Str(Len(ghost_picks)) \o <<" candidat(s) Ghost">> >>
                 ELSE <<>>)
    ELSE LET count == Get(data, "count", 0)
             skipped == Get(data, "skipped_url", 0) + Get(data, "skipped_topic", 0)
             hours == Get(data, "hours", 24)
         IN  << <<"*Veille tech - ", Now, "*">>,
                Str(count) \o <<" articles (">> \o Str(hours) \o <<"h)">> >>
             \o (IF skipped # 0 THEN << Str(skipped) \o <<" filtre(s)">> >> ELSE <<>>)

format_recap(data) ==
    IF RecapKeyError(data) THEN Raised("KeyError")
    ELSE Returned(Join("\n", RecapLines(data)))

\* the keys an article dict is subscripted with (a[...]) by a renderer
HasAll(a, keys) == keys \subseteq DOMAIN a

\* by_src of the Raw branch: the source names, sorted(by_src.items()) order
SourcesOf(articles) ==
    Sorted({Get(articles[i], "source", <<"?">>) : i \in 1..Len(articles)})

\* by_src[src]: the articles of one source, in input order
ArticlesOf(articles, src) ==
    SelectSeq(articles, LAMBDA a : Get(a, "source", <<"?">>) = src)

\* the lines format_digest_markdown writes for one article of a category
MdArticle(a) ==
    LET reason == Get(a, "reason", <<>>)
    IN  << <<"- **[">> \o a["title"] \o <<"](">> \o a["url"] \o <<")**  ">>,
           <<"  *">> \o a["source"] \o <<" - ">> \o Get(a, "published", <<>>) \o <<"*  ">> >>
        \o (IF reason # <<>> THEN << <<"  ">> \o reason >> ELSE <<>>)
        \o << <<>> >>

\* the lines written for one ghost pick
MdPick(p) ==
    << <<"- **[">> \o p["title"] \o <<"](">> \o p["url"] \o <<")**  ">>,
       <<"  *">> \o p["source"] \o <<"* - ">> \o Get(p, "reason", <<>>),
       <<>> >>

\* the lines written for one article of a source (Raw branch)
MdRawArticle(a) ==
    << <<"- **[">> \o a["title"] \o <<"](">> \o a["url"] \o <<")**  ">>,
       <<"  *">> \o Get(a, "published", <<>>) \o <<"*">>,
       <<>> >>

MdCategory(cat) ==
    LET arts == Get(cat, "articles", <<>>)
    IN  << <<"## ">> \o cat["name"], <<>> >>
        \o Flatten([i \in 1..Len(arts) |-> MdArticle(arts[i])])

\* a subscript cat['name'], a['title'], a['url'], a['source'], p[...] of
\* format_digest_markdown hits a missing key
MarkdownKeyError(data) ==
    IF _is_processed(data)
    THEN LET categories == Get(data, "categories", <<>>)
             picks == Get(data, "ghost_picks", <<>>)
         IN  \/ \E i \in 1..Len(categories) :
                   \/ "name" \notin DOMAIN categories[i]
                   \/ \E j \in 1..Len(Get(categories[i], "articles", <<>>)) :
                         ~HasAll(Get(categories[i], "articles", <<>>)[j],
                                 {"title", "url", "source"})
             \/ \E j \in 1..Len(picks) : ~HasAll(picks[j], {"title", "url", "source"})
    ELSE LET articles == Get(data, "articles", <<>>)
         IN  \E j \in 1..Len(articles) : ~HasAll(articles[j], {"title", "url"})

MarkdownLines(data) ==
    << <<"# Veille technique - ", Now>>, <<>> >>
    \o (IF _is_processed(data)
        THEN LET categories == Get(data, "categories", <<>>)
                 picks == Get(data, "ghost_picks", <<>>)
             IN  Flatten([i \in 1..Len(categories) |-> MdCategory(categories[i])])
                 \o (IF picks # <<>>
                     THEN << <<"## (pen) Candidats Ghost">>, <<>> >>
                          \o Flatten([j \in 1..Len(picks) |-> MdPick(picks[j])])
                     ELSE <<>>)
        ELSE LET articles == Get(data, "articles", <<>>)
                 skipped == Get(data, "skipped_url", 0) + Get(data, "skipped_topic", 0)
                 srcs == SourcesOf(articles)
             IN  << <<"*">> \o Str(Len(articles)) \o <<" articles | ">>
                       \o Str(skipped) \o <<" filtres*">>,
                    <<>> >>
                 \o Flatten([k \in 1..Len(srcs) |->
                       << <<"## ">> \o srcs[k], <<>> >>
                       \o Flatten([j \in 1..Len(ArticlesOf(articles, srcs[k])) |->
                             MdRawArticle(ArticlesOf(articles, srcs[k])[j])])]))

format_digest_markdown(data) ==
    IF MarkdownKeyError(data) THEN Raised("KeyError")
    ELSE Returned(Join("\n", MarkdownLines(data)))

\* html.escape of one character (quote=True)
EscapeChar(c) ==
    CASE c = "&" -> "&amp;"
      [] c = "<" -> "&lt;"
      [] c = ">" -> "&gt;"
      [] c = "\"" -> "&quot;"
      [] c = "'" -> "&#x27;"
      [] OTHER -> c

\* _e without the escaping: the field as it is
_e_raw(s) == s

\* _e(s): html.escape(str(s) if s else "")
_e(s) == [i \in 1..Len(s) |-> EscapeChar(s[i])]

\* one <tr> of a category table (style attributes elided from the literals)
HtmlRow(a) ==
    <<"<tr><td>">> \o _e(Get(a, "source", <<>>)) \o <<" ">>
    \o _e(Get(a, "published", <<>>)) \o <<"</td><td><a href=\"">>
    \o _e(a["url"]) \o <<"\">">> \o _e(a["title"]) \o <<"</a>">>
    \o (IF Get(a, "reason", <<>>) # <<>>
        THEN <<"<br><span>">> \o _e(Get(a, "reason", <<>>)) \o <<"</span>">>
        ELSE <<>>)
    \o <<"</td></tr>">>

\* one <tr> of the ghost picks table
HtmlPickRow(p) ==
    <<"<tr><td><a href=\"">> \o _e(p["url"]) \o <<"\">">> \o _e(p["title"])
    \o <<"</a><br><span>">> \o _e(Get(p, "source", <<>>)) \o <<" - ">>
    \o _e(Get(p, "reason", <<>>)) \o <<"</span></td></tr>">>

\* one <tr> of a source table (Raw branch)
HtmlRawRow(a) ==
    <<"<tr><td><a href=\"">> \o _e(a["url"]) \o <<"\">">> \o _e(a["title"])
    \o <<"</a> <span>">> \o _e(Get(a, "published", <<>>)) \o <<"</span></td></tr>">>

\* the categories format_digest_html writes a section for
HtmlCats(categories) ==
    SelectSeq(categories, LAMBDA c : Get(c, "articles", <<>>) # <<>>)

\* a subscript a["url"], a["title"], cat["name"], p[...] of
\* format_digest_html hits a missing key
HtmlKeyError(data) ==
    IF _is_processed(data)
    THEN LET shown == HtmlCats(Get(data, "categories", <<>>))
             picks == Get(data, "ghost_picks", <<>>)
         IN  \/ \E i \in 1..Len(shown) :
                   \/ "name" \notin DOMAIN shown[i]
                   \/ \E j \in 1..Len(shown[i]["articles"]) :
                         ~HasAll(shown[i]["articles"][j], {"url", "title"})
             \/ \E j \in 1..Len(picks) : ~HasAll(picks[j], {"url", "title"})
    ELSE LET articles == Get(data, "articles", <<>>)
         IN  \E j \in 1..Len(articles) : ~HasAll(articles[j], {"url", "title"})

\* the list `sections` of format_digest_html
HtmlSections(data) ==
    IF _is_processed(data)
    THEN LET shown == HtmlCats(Get(data, "categories", <<>>))
             picks == Get(data, "ghost_picks", <<>>)
         IN  [i \in 1..Len(shown) |->
                <<"<h2>">> \o _e(shown[i]["name"]) \o <<"</h2><table>">>
                \o Flatten([j \in 1..Len(shown[i]["articles"]) |->
                      HtmlRow(shown[i]["articles"][j])])
                \o <<"</table>">>]
             \o (IF picks # <<>>
                 THEN << <<"<h2>(pen) Candidats Ghost</h2><table>">>
                         \o Flatten([j \in 1..Len(picks) |-> HtmlPickRow(picks[j])])
                         \o <<"</table>">> >>
                 ELSE <<>>)
    ELSE LET articles == Get(data, "articles", <<>>)
             srcs == SourcesOf(articles)
         IN  [k \in 1..Len(srcs) |->
                <<"<h2>">> \o _e(srcs[k]) \o <<"</h2><table>">>
                \o Flatten([j \in 1..Len(ArticlesOf(articles, srcs[k])) |->
                      HtmlRawRow(ArticlesOf(articles, srcs[k])[j])])
                \o <<"</table>">>]

\* the article count of the page header
HtmlCount(data) ==
    IF _is_processed(data)
    THEN SumArticles(Get(data, "categories", <<>>))
    ELSE Get(data, "count", Len(Get(data, "articles", <<>>)))

format_digest_html(data) ==
    IF HtmlKeyError(data) THEN Raised("KeyError")
    ELSE LET sections == HtmlSections(data)
             body == IF Join("\n", sections) # <<>>
                     THEN Join("\n", sections)
                     ELSE <<"<p>Aucun article.</p>">>
         IN  Returned(<<"<!DOCTYPE html><html><body><h1>Veille technique</h1><p>", Now, " - ">>
                      \o Str(HtmlCount(data)) \o <<" articles</p>">>
                      \o body
                      \o <<"<div>OpenClaw veille skill</div></body></html>">>)

\* ------------------------------------------------------------------------
\* Environment of a handler call
\* ------------------------------------------------------------------------
\* What the outside world answers during one handler call:
\*   ocConfig   ~/.openclaw/openclaw.json: "absent", "unreadable" (not JSON),
\*              "notoken" (no channels.telegram.botToken), "token"
\*   api        urlopen + response: "ok", "not_ok" (ok is false), "error"
\*   mailScript whether mail-client/scripts/mail.py exists
\*   mailTool   subprocess.run of it: "zero", "nonzero", "raises" (timeout...)
\*   smtp       the smtplib session: "sent" or "error" (any exception)
\*   ncScript   whether nextcloud/scripts/nextcloud.py exists
\*   ncTool     subprocess.run of it: "zero", "nonzero", "raises"
\*   fs         mkdir + write_text: "ok" or "error" (any exception)
DefaultEnv ==
    [ocConfig |-> "absent", api |-> "ok", mailScript |-> FALSE, mailTool |-> "zero",
     smtp |-> "sent", ncScript |-> FALSE, ncTool |-> "zero", fs |-> "ok"]

ToolOutcomes == {"zero", "nonzero", "raises"}

\* the environments that differ in what a handler of the given type reads
EnvFor(type) ==
    CASE type = "telegram_bot" ->
           {[DefaultEnv EXCEPT !.ocConfig = c, !.api = a] :
              c \in {"absent", "unreadable", "notoken", "token"},
              a \in {"ok", "not_ok", "error"}}
      [] type = "mail-client" ->
           {[DefaultEnv EXCEPT !.mailScript = e, !.mailTool = t, !.smtp = m] :
              e \in BOOLEAN, t \in ToolOutcomes, m \in {"sent", "error"}}
      [] type = "nextcloud" ->
           {[DefaultEnv EXCEPT !.ncScript = e, !.ncTool = t] :
              e \in BOOLEAN, t \in ToolOutcomes}
      [] type = "file" ->
           {[DefaultEnv EXCEPT !.fs = f] : f \in {"ok", "error"}}
      [] OTHER -> {DefaultEnv}

\* What one handler call did to the outside world:
\*   token    where the bot token came from: "none", "cfg", "shared"
\*   api      outcome of the Bot API request, "none" when no request was made
\*   tool     "none" when the handler never looked for the external tool,
\*            "absent" when the script does not exist, else the outcome of
\*            the subprocess that was run
\*   fallback number of calls of _smtp_fallback
\*   conn     outcome of the SMTP session, "none" when none was opened
\*   write    outcome of the file write, "none" when none was attempted
\*   plain    renderer of the text body: "none", "recap", "markdown"
\*   rich     renderer of the rich body: "none", "html"
NoEffect ==
    [token |-> "none", api |-> "none", tool |-> "none", fallback |-> 0,
     conn |-> "none", write |-> "none", plain |-> "none", rich |-> "none"]

\* a handler call that returned the boolean b / that let exception e escape
HReturn(b, eff) == [res |-> IF b THEN "true" ELSE "false", exc |-> "", eff |-> eff]
HRaise(e, eff) == [res |-> "raise", exc |-> e, eff |-> eff]

\* ------------------------------------------------------------------------
\* OpenClaw config helpers
\* ------------------------------------------------------------------------

_oc_telegram_token(env) == IF env.ocConfig = "token" THEN "octok" ELSE ""

\* ------------------------------------------------------------------------
\* Handlers
\* ------------------------------------------------------------------------

\* TextRenderer giving the full digest for "full_digest" only: any other
\* value of content gets the recap
TextRendererStrict(content) == IF content = "full_digest" THEN "markdown" ELSE "recap"

\* `format_recap(data) if content == "recap" else format_digest_markdown(data)`
TextRenderer(content) == IF content = "recap" THEN "recap" ELSE "markdown"

Render(renderer, data) ==
    CASE renderer = "recap" -> format_recap(data)
      [] renderer = "markdown" -> format_digest_markdown(data)
      [] renderer = "html" -> format_digest_html(data)

_out_telegram(cfg, data, env) ==
    LET own == Get(cfg, "bot_token", "")
        token == IF own # "" THEN own ELSE _oc_telegram_token(env)
        chat_id == Get(cfg, "chat_id", "")
        content == Get(cfg, "content", "recap")
        text == Render(TextRenderer(content), data)
        e0 == [NoEffect EXCEPT !.token = IF own # "" THEN "cfg"
                                         ELSE IF token # "" THEN "shared" ELSE "none"]
        e1 == [e0 EXCEPT !.plain = TextRenderer(content)]
    IN  IF token = "" THEN HReturn(FALSE, e0)
        ELSE IF chat_id = "" THEN HReturn(FALSE, e0)
        ELSE IF text.exc # "" THEN HRaise(text.exc, e1)
        ELSE HReturn(env.api = "ok", [e1 EXCEPT !.api = env.api])

\* the values of smtp_port that int() accepts
PortLiterals == {"25", "465", "587"}

_smtp_fallback(cfg, body_html, env, eff) ==
    LET host == Get(cfg, "smtp_host", "")
        port == Get(cfg, "smtp_port", "587")
        user == Get(cfg, "smtp_user", "")
        password == Get(cfg, "smtp_pass", "")
        to_ == Get(cfg, "mail_to", "")
        e0 == [eff EXCEPT !.fallback = @ + 1]
    IN  IF port \notin PortLiterals THEN HRaise("ValueError", e0)
        ELSE IF host = "" \/ user = "" \/ password = "" \/ to_ = "" THEN HReturn(FALSE, e0)
        ELSE HReturn(env.smtp = "sent", [e0 EXCEPT !.conn = env.smtp])

\* _out_mail without the fall-through: a failed delegation is reported as
\* a failure at once, the SMTP fallback is tried only when the tool is absent
_out_mail_no_fallthrough(cfg, data, env) ==
    LET mail_to == Get(cfg, "mail_to", "")
        content == Get(cfg, "content", "full_digest")
        body_plain == Render(TextRenderer(content), data)
        body_html == IF content = "recap" THEN Returned(<<>>) ELSE Render("html", data)
        e1 == [NoEffect EXCEPT !.plain = TextRenderer(content)]
        e2 == [e1 EXCEPT !.rich = IF content = "recap" THEN "none" ELSE "html"]
    IN  IF mail_to = "" THEN HReturn(FALSE, NoEffect)
        ELSE IF body_plain.exc # "" THEN HRaise(body_plain.exc, e1)
        ELSE IF body_html.exc # "" THEN HRaise(body_html.exc, e2)
        ELSE IF env.mailScript
             THEN HReturn(env.mailTool = "zero", [e2 EXCEPT !.tool = env.mailTool])
             ELSE _smtp_fallback(cfg, body_html.val, env, [e2 EXCEPT !.tool = "absent"])

_out_mail(cfg, data, env) ==
    LET mail_to == Get(cfg, "mail_to", "")
        content == Get(cfg, "content", "full_digest")
        body_plain == Render(TextRenderer(content), data)
        body_html == IF content = "recap" THEN Returned(<<>>) ELSE Render("html", data)
        e1 == [NoEffect EXCEPT !.plain = TextRenderer(content)]
        e2 == [e1 EXCEPT !.rich = IF content = "recap" THEN "none" ELSE "html"]
    IN  IF mail_to = "" THEN HReturn(FALSE, NoEffect)
        ELSE IF body_plain.exc # "" THEN HRaise(body_plain.exc, e1)
        ELSE IF body_html.exc # "" THEN HRaise(body_html.exc, e2)
        ELSE IF env.mailScript
             THEN IF env.mailTool = "zero"
                  THEN HReturn(TRUE, [e2 EXCEPT !.tool = "zero"])
                  ELSE _smtp_fallback(cfg, body_html.val, env, [e2 EXCEPT !.tool = env.mailTool])
             ELSE _smtp_fallback(cfg, body_html.val, env, [e2 EXCEPT !.tool = "absent"])

_out_nextcloud(cfg, data, env) ==
    LET nc_path == Get(cfg, "path", "")
        content == Get(cfg, "content", "full_digest")
        text == Render(TextRenderer(content), data)
        e1 == [NoEffect EXCEPT !.plain = TextRenderer(content)]
    IN  IF nc_path = "" THEN HReturn(FALSE, NoEffect)
        ELSE IF text.exc # "" THEN HRaise(text.exc, e1)
        ELSE IF ~env.ncScript THEN HReturn(FALSE, [e1 EXCEPT !.tool = "absent"])
        ELSE HReturn(env.ncTool = "zero", [e1 EXCEPT !.tool = env.ncTool])

_out_file(cfg, data, env) ==
    LET file_path == Get(cfg, "path", "")
        content == Get(cfg, "content", "full_digest")
        text == Render(TextRenderer(content), data)
        e1 == [NoEffect EXCEPT !.plain = TextRenderer(content)]
    IN  IF file_path = "" THEN HReturn(FALSE, NoEffect)
        ELSE IF text.exc # "" THEN HRaise(text.exc, e1)
        ELSE HReturn(env.fs = "ok", [e1 EXCEPT !.write = env.fs])

\* ------------------------------------------------------------------------
\* Handler registry
\* ------------------------------------------------------------------------

\* the keys of _HANDLERS
_HANDLERS == {"telegram_bot", "mail-client", "nextcloud", "file"}

\* _HANDLERS[out_type](out, data)
CallHandler(out_type, out, data, env) ==
    CASE out_type = "telegram_bot" -> _out_telegram(out, data, env)
      [] out_type = "mail-client" -> _out_mail(out, data, env)
      [] out_type = "nextcloud" -> _out_nextcloud(out, data, env)
      [] out_type = "file" -> _out_file(out, data, env)

\* ------------------------------------------------------------------------
\* Inputs of a run
\* ------------------------------------------------------------------------

\* the Raw digest of the end-to-end example
GoodRaw ==
    [hours |-> 24, count |-> 2,
     articles |-> << [title |-> <<"A">>, url |-> <<"u">>, source |-> <<"X">>],
                     [title |-> <<"B">>, url |-> <<"v">>, source |-> <<"Y">>] >>]

\* a Processed digest with every field present
GoodProcessed ==
    [categories |-> << [name |-> <<"A">>,
                        articles |-> << [title |-> <<"A">>, url |-> <<"u">>,
                                         source |-> <<"X">>, published |-> <<"d">>,
                                         reason |-> <<"r">>] >>] >>,
     ghost_picks |-> << [title |-> <<"B">>, url |-> <<"v">>, source |-> <<"Y">>] >>]

\* a Processed digest whose article has only the required title and url
ProcessedNoSource ==
    [categories |-> << [name |-> <<"A">>,
                        articles |-> << [title |-> <<"A">>, url |-> <<"u">>] >>] >>]

\* the documents read from stdin in a run
RunDigests == {GoodRaw, GoodProcessed, ProcessedNoSource}

\* channel entries
Tg == [type |-> "telegram_bot", bot_token |-> "tok", chat_id |-> "42"]
TgShared == [type |-> "telegram_bot", chat_id |-> "42", content |-> "full_digest"]
Mail ==
    [type |-> "mail-client", mail_to |-> "a@b", smtp_host |-> "h",
     smtp_user |-> "usr", smtp_pass |-> "pw"]
MailNoHost ==
    [type |-> "mail-client", mail_to |-> "a@b", smtp_user |-> "usr",
     smtp_pass |-> "pw", smtp_port |-> "465", content |-> "recap"]
MailBadPort ==
    [type |-> "mail-client", mail_to |-> "a@b", smtp_port |-> "abc", content |-> "recap"]
Nc == [type |-> "nextcloud", path |-> "/veille.md"]
FileRecap == [type |-> "file", path |-> "out.md", content |-> "recap", enabled |-> TRUE]
FileNoPath == [type |-> "file"]
Disabled == [type |-> "file", path |-> "out.md", enabled |-> FALSE]
Unknown == [type |-> "bogus", path |-> "out.md"]

ChannelPool ==
    {Tg, TgShared, Mail, MailNoHost, MailBadPort, Nc, FileRecap, FileNoPath,
     Disabled, Unknown}

\* the channel lists of at most n entries
RECURSIVE ChannelLists(_)
ChannelLists(n) ==
    IF n = 0 THEN {<<>>}
    ELSE ChannelLists(n - 1)
         \cup {Append(l, c) : l \in {k \in ChannelLists(n - 1) : Len(k) = n - 1},
                              c \in ChannelPool}

\* the lists stored under the profile "daily"
ProfileLists == {<<>>, <<FileRecap>>, <<Disabled, Tg>>}

\* the documents config.json can hold
Configs ==
    {[outputs |-> o] : o \in ChannelLists(MaxChannels)}
    \cup {[outputs |-> o, profiles |-> [daily |-> l]] :
            o \in ChannelLists(MaxChannels), l \in ProfileLists}
    \cup {[profiles |-> [daily |-> l]] : l \in ProfileLists}

\* --profile: <<>> is None (flag absent), <<name>> the name given
Profiles == {<<>>, <<"">>, <<"daily">>, <<"urgent">>}

\* ------------------------------------------------------------------------
\* State
\* ------------------------------------------------------------------------

VARIABLES
    pc,          \* where main is: "start", "config", "dispatch", "loop",
                 \* "returned", "exited"; "render" in the renderer specification
    profile,     \* args.profile
    data,        \* the digest parsed from stdin
    config,      \* the dict loaded from config.json
    outputs,     \* the channel list dispatch iterates over
    idx,         \* 1-based position of the loop in outputs
    results,     \* the dict {"ok": [...], "fail": [...], "skip": [...]}
    exitStatus,  \* process exit status, -1 while running
    log,         \* history: one record per handler call, in call order
    rendered     \* renderer name -> result, in the renderer specification

vars == <<pc, profile, data, config, outputs, idx, results, exitStatus, log, rendered>>

EmptyResults == [ok |-> <<>>, fail |-> <<>>, skip |-> <<>>]

Init ==
    /\ pc = "start"
    /\ profile \in Profiles
    /\ data = <<>>
    /\ config = <<>>
    /\ outputs = <<>>
    /\ idx = 0
    /\ results = EmptyResults
    /\ exitStatus = -1
    /\ log = <<>>
    /\ rendered = <<>>

\* ------------------------------------------------------------------------
\* CLI entry point
\* ------------------------------------------------------------------------

\* main: stdin holds a JSON document
ReadStdin ==
    /\ pc = "start"
    /\ \E d \in RunDigests : data' = d
    /\ pc' = "config"
    /\ UNCHANGED <<profile, config, outputs, idx, results, exitStatus, log, rendered>>

\* main: json.JSONDecodeError on stdin, sys.exit(1)
StdinInvalid ==
    /\ pc = "start"
    /\ pc' = "exited"
    /\ exitStatus' = 1
    /\ UNCHANGED <<profile, data, config, outputs, idx, results, log, rendered>>

\* main: config.json exists and parses
LoadConfig ==
    /\ pc = "config"
    /\ \E c \in Configs : config' = c
    /\ pc' = "dispatch"
    /\ UNCHANGED <<profile, data, outputs, idx, results, exitStatus, log, rendered>>

\* main: config.json is missing or unreadable, config stays {}
ConfigMissing ==
    /\ pc = "config"
    /\ config' = <<>>
    /\ pc' = "dispatch"
    /\ UNCHANGED <<profile, data, outputs, idx, results, exitStatus, log, rendered>>

\* ------------------------------------------------------------------------
\* Main dispatch function
\* ------------------------------------------------------------------------

\* `if profile:` on args.profile
ProfileGiven(p) == p # <<>> /\ p[1] # ""

\* ResolveOutputs merging the profile into the default list
ResolveOutputsMerged(cfg, p) ==
    IF ProfileGiven(p)
    THEN Get(Get(cfg, "profiles", <<>>), p[1], <<>>) \o Get(cfg, "outputs", <<>>)
    ELSE Get(cfg, "outputs", <<>>)

\* the channel list dispatch resolves
ResolveOutputs(cfg, p) ==
    IF ProfileGiven(p)
    THEN Get(Get(cfg, "profiles", <<>>), p[1], <<>>)
    ELSE Get(cfg, "outputs", <<>>)

\* DispatchEnter walking the resolved list from its last entry to its first
DispatchEnterReversed ==
    /\ pc = "dispatch"
    /\ outputs' = LET l == ResolveOutputs(config, profile)
                  IN  [i \in 1..Len(l) |-> l[Len(l) + 1 - i]]
    /\ results' = EmptyResults
    /\ idx' = 1
    /\ pc' = IF ResolveOutputs(config, profile) = <<>> THEN "returned" ELSE "loop"
    /\ UNCHANGED <<profile, data, config, exitStatus, log, rendered>>

\* dispatch, up to the loop: resolve the list, return at once when empty
DispatchEnter ==
    /\ pc = "dispatch"
    /\ outputs' = ResolveOutputs(config, profile)
    /\ results' = EmptyResults
    /\ idx' = 1
    /\ pc' = IF ResolveOutputs(config, profile) = <<>> THEN "returned" ELSE "loop"
    /\ UNCHANGED <<profile, data, config, exitStatus, log, rendered>>

\* out.get("type", "")
TypeOf(out) == Get(out, "type", "")

\* out.get("enabled", True)
IsEnabled(out) == Get(out, "enabled", TRUE)

\* loop body: the entry is disabled
SkipDisabled ==
    /\ pc = "loop" /\ idx <= Len(outputs)
    /\ ~IsEnabled(outputs[idx])
    /\ results' = [results EXCEPT !.skip = Append(@, TypeOf(outputs[idx]))]
    /\ idx' = idx + 1
    /\ UNCHANGED <<pc, profile, data, config, outputs, exitStatus, log, rendered>>

\* SkipUnknown counting an unknown type as a failed channel
SkipUnknownAsFail ==
    /\ pc = "loop" /\ idx <= Len(outputs)
    /\ IsEnabled(outputs[idx])
    /\ TypeOf(outputs[idx]) \notin _HANDLERS
    /\ results' = [results EXCEPT !.fail = Append(@, TypeOf(outputs[idx]))]
    /\ idx' = idx + 1
    /\ UNCHANGED <<pc, profile, data, config, outputs, exitStatus, log, rendered>>

\* loop body: no handler is registered for the type
SkipUnknown ==
    /\ pc = "loop" /\ idx <= Len(outputs)
    /\ IsEnabled(outputs[idx])
    /\ TypeOf(outputs[idx]) \notin _HANDLERS
    /\ results' = [results EXCEPT !.skip = Append(@, TypeOf(outputs[idx]))]
    /\ idx' = idx + 1
    /\ UNCHANGED <<pc, profile, data, config, outputs, exitStatus, log, rendered>>

\* whether the external skill script a channel type delegates to exists
\* (mail_script.exists(), nc_script.exists()); TRUE for the types without one
ToolInstalled(out_type, env) ==
    CASE out_type = "mail-client" -> env.mailScript
      [] out_type = "nextcloud" -> env.ncScript
      [] OTHER -> TRUE

\* the record the history keeps of the handler call for entry i
LogEntry(i, out_type, r, env) ==
    [i |-> i, type |-> out_type, res |-> r.res, exc |-> r.exc, eff |-> r.eff,
     installed |-> ToolInstalled(out_type, env)]

\* Invoke keeping ok and fail as sets: a label already in the list is not
\* appended again
InvokeDedup ==
    /\ pc = "loop" /\ idx <= Len(outputs)
    /\ IsEnabled(outputs[idx])
    /\ TypeOf(outputs[idx]) \in _HANDLERS
    /\ \E env \in EnvFor(TypeOf(outputs[idx])) :
          LET out_type == TypeOf(outputs[idx])
              r == CallHandler(out_type, outputs[idx], data, env)
              key == IF r.res = "true" THEN "ok" ELSE "fail"
          IN  /\ r.res # "raise"
              /\ log' = Append(log, LogEntry(idx, out_type, r, env))
              /\ results' = IF \E j \in 1..Len(results[key]) : results[key][j] = out_type
                            THEN results
                            ELSE [results EXCEPT ![key] = Append(@, out_type)]
    /\ idx' = idx + 1
    /\ UNCHANGED <<pc, profile, data, config, outputs, exitStatus, rendered>>

\* Invoke inserting the label at the front of the list instead of appending
InvokePrepend ==
    /\ pc = "loop" /\ idx <= Len(outputs)
    /\ IsEnabled(outputs[idx])
    /\ TypeOf(outputs[idx]) \in _HANDLERS
    /\ \E env \in EnvFor(TypeOf(outputs[idx])) :
          LET out_type == TypeOf(outputs[idx])
              r == CallHandler(out_type, outputs[idx], data, env)
              key == IF r.res = "true" THEN "ok" ELSE "fail"
          IN  /\ r.res # "raise"
              /\ log' = Append(log, LogEntry(idx, out_type, r, env))
              /\ results' = [results EXCEPT ![key] = <<out_type>> \o @]
    /\ idx' = idx + 1
    /\ UNCHANGED <<pc, profile, data, config, outputs, exitStatus, rendered>>

\* Invoke with handlers that take content out of the entry (cfg.pop) instead
\* of reading it (cfg.get)
InvokeConsuming ==
    /\ pc = "loop" /\ idx <= Len(outputs)
    /\ IsEnabled(outputs[idx])
    /\ TypeOf(outputs[idx]) \in _HANDLERS
    /\ \E env \in EnvFor(TypeOf(outputs[idx])) :
          LET out_type == TypeOf(outputs[idx])
              r == CallHandler(out_type, outputs[idx], data, env)
          IN  /\ r.res # "raise"
              /\ log' = Append(log, LogEntry(idx, out_type, r, env))
              /\ results' = IF r.res = "true"
                            THEN [results EXCEPT !.ok = Append(@, out_type)]
                            ELSE [results EXCEPT !.fail = Append(@, out_type)]
    /\ outputs' = [outputs EXCEPT ![idx] = Restrict(@, (DOMAIN @) \ {"content"})]
    /\ idx' = idx + 1
    /\ UNCHANGED <<pc, profile, data, config, exitStatus, rendered>>

\* loop body: the handler is called and returns a boolean
Invoke ==
    /\ pc = "loop" /\ idx <= Len(outputs)
    /\ IsEnabled(outputs[idx])
    /\ TypeOf(outputs[idx]) \in _HANDLERS
    /\ \E env \in EnvFor(TypeOf(outputs[idx])) :
          LET out_type == TypeOf(outputs[idx])
              r == CallHandler(out_type, outputs[idx], data, env)
          IN  /\ r.res # "raise"
              /\ log' = Append(log, LogEntry(idx, out_type, r, env))
              /\ results' = IF r.res = "true"
                            THEN [results EXCEPT !.ok = Append(@, out_type)]
                            ELSE [results EXCEPT !.fail = Append(@, out_type)]
    /\ idx' = idx + 1
    /\ UNCHANGED <<pc, profile, data, config, outputs, exitStatus, rendered>>

\* loop body: the handler is called and an exception escapes it; nothing in
\* dispatch or main catches it, the interpreter exits with status 1
InvokeRaises ==
    /\ pc = "loop" /\ idx <= Len(outputs)
    /\ IsEnabled(outputs[idx])
    /\ TypeOf(outputs[idx]) \in _HANDLERS
    /\ \E env \in EnvFor(TypeOf(outputs[idx])) :
          LET out_type == TypeOf(outputs[idx])
              r == CallHandler(out_type, outputs[idx], data, env)
          IN  /\ r.res = "raise"
              /\ log' = Append(log, LogEntry(idx, out_type, r, env))
    /\ pc' = "exited"
    /\ exitStatus' = 1
    /\ UNCHANGED <<profile, data, config, outputs, idx, results, rendered>>

\* the loop is over, dispatch returns results
DispatchReturn ==
    /\ pc = "loop" /\ idx > Len(outputs)
    /\ pc' = "returned"
    /\ UNCHANGED <<profile, data, config, outputs, idx, results, exitStatus, log, rendered>>

\* MainExit with the exit status taken from the wrong list: the status is
\* non-zero when a channel was skipped instead of when one failed
MainExitOnSkip ==
    /\ pc = "returned"
    /\ exitStatus' = IF results.skip # <<>> THEN 1 ELSE 0
    /\ pc' = "exited"
    /\ UNCHANGED <<profile, data, config, outputs, idx, results, log, rendered>>

\* main: print the summary, sys.exit(1) when results["fail"] is non-empty
MainExit ==
    /\ pc = "returned"
    /\ exitStatus' = IF results.fail # <<>> THEN 1 ELSE 0
    /\ pc' = "exited"
    /\ UNCHANGED <<profile, data, config, outputs, idx, results, log, rendered>>

Next ==
    \/ ReadStdin
    \/ StdinInvalid
    \/ LoadConfig
    \/ ConfigMissing
    \/ DispatchEnter
    \/ SkipDisabled
    \/ SkipUnknown
    \/ Invoke
    \/ InvokeRaises
    \/ DispatchReturn
    \/ MainExit

Spec == Init /\ [][Next]_vars

\* ------------------------------------------------------------------------
\* The renderers on their own
\* ------------------------------------------------------------------------

\* two articles with every field; the second has markup characters and a
\* source that sorts before the first one's
FullA ==
    [title |-> <<"A">>, url |-> <<"u">>, source |-> <<"X">>,
     published |-> <<"d">>, reason |-> <<"r">>]
FullB ==
    [title |-> <<"B", "<">>, url |-> <<"v">>, source |-> <<"A", "&">>,
     published |-> <<"d", "'">>, reason |-> <<"r", ">">>]

\* the fields an article of the model comes with
ArticleKeySets ==
    {{"title", "url", "source", "published", "reason"},
     {"title", "url", "source"},
     {"title", "url", "reason"},
     {"title", "url"},
     {"url", "source"}}

RenderArticles == {Restrict(a, S) : a \in {FullA, FullB}, S \in ArticleKeySets}

\* the article lists of at most n articles
RECURSIVE ArticleLists(_)
ArticleLists(n) ==
    IF n = 0 THEN {<<>>}
    ELSE ArticleLists(n - 1)
         \cup {Append(l, a) : l \in {k \in ArticleLists(n - 1) : Len(k) = n - 1},
                              a \in RenderArticles}

\* the top-level fields a Raw digest of the model comes with
RawKeySets ==
    {{"hours", "count", "skipped_url", "skipped_topic", "articles"},
     {"count", "articles"},
     {"articles"},
     {}}

RawDigests ==
    {Restrict([hours |-> 48, count |-> 7, skipped_url |-> 1, skipped_topic |-> 2,
               articles |-> l], S) :
        l \in ArticleLists(MaxArticles), S \in RawKeySets}

\* the ghost_picks a Processed digest of the model comes with
PickLists == {<<>>, <<FullB>>, <<Restrict(FullA, {"title", "url"})>>}

ProcessedDigests ==
    {[categories |-> <<>>], [categories |-> <<>>, ghost_picks |-> <<FullB>>],
     [categories |-> << [name |-> <<"Y">>] >>],
     [categories |-> << [articles |-> <<FullA>>] >>]}
    \cup {[categories |-> << [name |-> <<"Y">>, articles |-> l] >>] :
            l \in ArticleLists(MaxArticles)}
    \cup {[categories |-> << [name |-> <<"Y">>, articles |-> l],
                             [name |-> <<"A", "\"">>, articles |-> <<FullA>>] >>,
           ghost_picks |-> g] :
            l \in ArticleLists(MaxArticles), g \in PickLists}

RenderDigests == RawDigests \cup ProcessedDigests

Renderers == {"recap", "markdown", "html"}

InitRender ==
    /\ pc = "render"
    /\ data \in RenderDigests
    /\ rendered = <<>>
    /\ profile = <<>>
    /\ config = <<>>
    /\ outputs = <<>>
    /\ idx = 0
    /\ results = EmptyResults
    /\ exitStatus = -1
    /\ log = <<>>

\* rendered with the result of renderer f on data added
Rendering(f) ==
    /\ pc = "render"
    /\ f \notin DOMAIN rendered
    /\ rendered' = [g \in (DOMAIN rendered) \cup {f} |->
                       IF g = f THEN Render(f, data) ELSE rendered[g]]
    /\ UNCHANGED <<pc, profile, data, config, outputs, idx, results, exitStatus, log>>

RenderRecap == Rendering("recap")
RenderMarkdown == Rendering("markdown")
RenderHtml == Rendering("html")

NextRender == RenderRecap \/ RenderMarkdown \/ RenderHtml

SpecRender == InitRender /\ [][NextRender]_vars

\* ------------------------------------------------------------------------
\* Properties
\* ------------------------------------------------------------------------

\* the handler of entry i of outputs was called
Invoked(i) == \E k \in 1..Len(log) : log[k].i = i

\* entry i of outputs is one the loop hands to a handler
Dispatchable(i) == IsEnabled(outputs[i]) /\ TypeOf(outputs[i]) \in _HANDLERS

\* dispatch returned its results dict (to main)
DispatchReturned == idx > Len(outputs)

\* C1: when the run is over, the handler of every enabled channel with a
\* registered type has been called, whatever happened to the handlers of
\* the channels before it.
C1_EveryChannelAttempted ==
    pc = "exited" => \A i \in 1..Len(outputs) : Dispatchable(i) => Invoked(i)

\* C2 as stated: the exit status is non-zero if and only if the fail list
\* is non-empty.
C2_ExitNonZeroIffFail ==
    pc = "exited" => (exitStatus # 0 <=> results.fail # <<>>)

\* C2 amended: the exit status is zero exactly when dispatch returned a
\* result whose fail list is empty; it is non-zero when fail is non-empty
\* and also when no result was produced (stdin is not JSON, or an exception
\* escaped dispatch).  While main runs there is no exit status.
C2_ExitZeroIffReturnedWithoutFail ==
    /\ pc = "exited" => exitStatus \in {0, 1}
    /\ pc = "exited" => (exitStatus = 0 <=> (DispatchReturned /\ results.fail = <<>>))
    /\ pc # "exited" => exitStatus = -1

\* a run that ended with a non-zero status after a partial success
C2_Witness ==
    /\ pc = "exited" /\ exitStatus = 1 /\ DispatchReturned
    /\ results.fail # <<>> /\ results.ok # <<>> /\ results.skip = <<>>

\* C5: every handler call ends by returning a boolean; no exception
\* escapes a handler.
C5_HandlersReturnBoolean ==
    \A k \in 1..Len(log) : log[k].res \in {"true", "false"}

\* the mail handler calls of the run
MailCalls == {k \in 1..Len(log) : log[k].type = "mail-client"}

IsSkipEntry(out) ==
    \/ ("enabled" \in DOMAIN out /\ out["enabled"] = FALSE)
    \/ "type" \notin DOMAIN out
    \/ out["type"] \notin {"telegram_bot", "mail-client", "nextcloud", "file"}

\* the entries the loop is past
Done == IF idx >= 1 THEN SubSeq(outputs, 1, idx - 1) ELSE <<>>

\* the type labels of a list of entries
Labels(entries) ==
    [j \in 1..Len(entries) |-> IF "type" \in DOMAIN entries[j] THEN entries[j]["type"] ELSE ""]

\* C4: the skip list holds exactly the entries processed so far that are
\* disabled or of an unregistered type; no handler is called for such an
\* entry, it is counted in neither ok nor fail, and it never ends the loop:
\* a run that stops early stops at an entry that has a handler.
C4_SkipIffDisabledOrUnknown ==
    /\ results.skip = Labels(SelectSeq(Done, IsSkipEntry))
    /\ \A k \in 1..Len(log) : ~IsSkipEntry(outputs[log[k].i])
    /\ Len(results.ok) + Len(results.fail)
          = Cardinality({k \in 1..Len(log) : log[k].res # "raise"})
    /\ (pc = "exited" /\ idx >= 1 /\ ~DispatchReturned) => ~IsSkipEntry(outputs[idx])
    /\ pc = "returned" => idx = Len(outputs) + 1

\* an unknown type was skipped and the channel after it was delivered
C4_Witness ==
    /\ pc = "returned" /\ Len(outputs) = 2
    /\ TypeOf(outputs[1]) = "bogus"
    /\ results.skip = <<"bogus">> /\ results.ok = <<"telegram_bot">>
    /\ ~Invoked(1) /\ Invoked(2)

\* the list config.json stores under a profile name / as the default list
StoredProfile(name) ==
    IF "profiles" \in DOMAIN config /\ name \in DOMAIN config["profiles"]
    THEN config["profiles"][name] ELSE <<>>
StoredDefault == IF "outputs" \in DOMAIN config THEN config["outputs"] ELSE <<>>

AllHandlersFailed ==
    \A i \in 1..Len(outputs) : \E k \in 1..Len(log) : log[k].i = i /\ log[k].res = "false"

\* C8 as stated: for every K, a run in which the handlers of all K entries
\* return failure ends with ok = [], K labels in fail, skip = [] and a
\* non-zero exit status.
C8_AllFail ==
    (pc = "exited" /\ DispatchReturned /\ AllHandlersFailed) =>
        /\ results.ok = <<>> /\ Len(results.fail) = Len(outputs) /\ results.skip = <<>>
        /\ exitStatus # 0

\* C8 amended: the same for K >= 1; the empty list (K = 0) gives three
\* empty lists and exit status zero.
C8_AllFailNonEmpty ==
    (pc = "exited" /\ DispatchReturned /\ AllHandlersFailed) =>
        /\ results.ok = <<>> /\ Len(results.fail) = Len(outputs) /\ results.skip = <<>>
        /\ Len(outputs) >= 1 => exitStatus # 0
        /\ Len(outputs) = 0 => exitStatus = 0

\* two channels of the same type both failed
C8_Witness ==
    /\ pc = "exited" /\ DispatchReturned /\ AllHandlersFailed
    /\ Len(outputs) = 2 /\ results.fail = <<"file", "file">> /\ exitStatus = 1

\* what happened to entry i: the result of its handler call, "skip" when
\* no handler was called
Outcome(i) ==
    IF Invoked(i) THEN (CHOOSE r \in {log[k].res : k \in {j \in 1..Len(log) : log[j].i = i}} : TRUE)
    ELSE "skip"

RECURSIVE LabelsUpTo(_, _)
\* the labels of the entries 1..n with outcome o, in configuration order
LabelsUpTo(n, o) ==
    IF n = 0 THEN <<>>
    ELSE LabelsUpTo(n - 1, o)
         \o (IF Outcome(n) = o THEN <<TypeOf(outputs[n])>> ELSE <<>>)

\* C9: at every step ok, fail and skip hold, in configuration order, the
\* labels of the entries processed so far whose handler returned true,
\* returned false, or was not called; each processed entry is in exactly
\* one list, and when dispatch has returned every entry is processed.
C9_ResultsPartitionProcessed ==
    idx >= 1 =>
        /\ results.ok = LabelsUpTo(idx - 1, "true")
        /\ results.fail = LabelsUpTo(idx - 1, "false")
        /\ results.skip = LabelsUpTo(idx - 1, "skip")
        /\ Len(results.ok) + Len(results.fail) + Len(results.skip) = idx - 1
        /\ \A k, l \in 1..Len(log) : log[k].i = log[l].i => k = l
        /\ pc = "returned" => idx - 1 = Len(outputs)

\* a list of two channels of the same type, both delivered
C9_Witness ==
    /\ pc = "returned" /\ Len(outputs) = 2
    /\ TypeOf(outputs[1]) = "telegram_bot" /\ TypeOf(outputs[2]) = "file"
    /\ results.ok = <<"telegram_bot", "file">>

\* one of smtp_host, smtp_user, smtp_pass, mail_to is missing or empty
MissingSmtpField(cfg) ==
    \E f \in {"smtp_host", "smtp_user", "smtp_pass", "mail_to"} :
        f \notin DOMAIN cfg \/ cfg[f] = ""

\* C10: a call of the SMTP fallback opens a connection only when the four
\* fields are all present; with one of them missing the mail handler
\* returns failure, no connection is opened and the channel is in fail.
C10_MissingFieldIsFailure ==
    \A k \in MailCalls :
        /\ log[k].eff.conn # "none" => ~MissingSmtpField(outputs[log[k].i])
        /\ (log[k].eff.fallback > 0 /\ MissingSmtpField(outputs[log[k].i])) =>
              /\ log[k].eff.conn = "none"
              /\ log[k].res = "false"
              /\ \E j \in 1..Len(results.fail) : results.fail[j] = "mail-client"

\* every article of the list has a title and a url
TitledArticles(l) == \A j \in 1..Len(l) : {"title", "url"} \subseteq DOMAIN l[j]

\* the digest has every required field: each category a name, each
\* article and ghost pick a title and a url
RequiredFieldsPresent(d) ==
    /\ "articles" \in DOMAIN d => TitledArticles(d["articles"])
    /\ "ghost_picks" \in DOMAIN d => TitledArticles(d["ghost_picks"])
    /\ "categories" \in DOMAIN d =>
          \A i \in 1..Len(d["categories"]) :
              /\ "name" \in DOMAIN d["categories"][i]
              /\ "articles" \in DOMAIN d["categories"][i] =>
                    TitledArticles(d["categories"][i]["articles"])

\* C6: on a digest that has its required fields, whatever optional field
\* is absent, each of the three renderers returns a text and never raises.
C6_RenderersTolerateMissingFields ==
    RequiredFieldsPresent(data) =>
        \A f \in DOMAIN rendered : rendered[f].exc = ""

\* the call performed no transport side effect: no API request, no
\* subprocess, no SMTP session, no file write
NoTransport(e) ==
    /\ e.eff.api = "none"
    /\ e.eff.tool \in {"none", "absent"}
    /\ e.eff.conn = "none"
    /\ e.eff.write = "none"

\* the prerequisite of the handler call e for channel entry c is missing
MissingPrerequisite(c, e) ==
    CASE e.type = "telegram_bot" ->
           \/ e.eff.token = "none"
           \/ "chat_id" \notin DOMAIN c \/ c["chat_id"] = ""
      [] e.type = "mail-client" -> "mail_to" \notin DOMAIN c \/ c["mail_to"] = ""
      [] e.type = "nextcloud" ->
           \/ "path" \notin DOMAIN c \/ c["path"] = ""
           \/ ~e.installed
      [] e.type = "file" -> "path" \notin DOMAIN c \/ c["path"] = ""

\* C11: a handler call whose prerequisite is missing (no bot token in the
\* channel config nor in the shared file, no chat_id, no mail_to, no path,
\* remote-storage tool not installed) returns false, performs no transport
\* side effect and tries no fallback, so the run goes on with the next
\* channel; a bot token of the channel config is the one used.
C11_MissingPrerequisiteIsFailure ==
    \A k \in 1..Len(log) :
        /\ MissingPrerequisite(outputs[log[k].i], log[k]) =>
              /\ log[k].res = "false"
              /\ NoTransport(log[k])
              /\ log[k].eff.fallback = 0
        /\ (log[k].type = "telegram_bot" /\ Get(outputs[log[k].i], "bot_token", "") # "") =>
              log[k].eff.token = "cfg"

\* ------------------------------------------------------------------------
\* Reading a rendered digest back: its sections and their articles
\* ------------------------------------------------------------------------

\* the heading both renderers give the ghost picks section
GhostHeading == <<"(pen) Candidats Ghost">>

\* the character an entity written by html.escape stands for
Unescape(t) ==
    CASE t = "&amp;" -> "&"
      [] t = "&lt;" -> "<"
      [] t = "&gt;" -> ">"
      [] t = "&quot;" -> "\""
      [] t = "&#x27;" -> "'"
      [] OTHER -> t

\* the positions of text, ascending, that hold a token of the set S
Positions(text, S) ==
    SelectSeq([i \in 1..Len(text) |-> i], LAMBDA i : text[i] \in S)

\* the first position after i that holds a token of S, Len(text) + 1 if none
NextAt(text, i, S) ==
    IF \E j \in (i + 1)..Len(text) : text[j] \in S
    THEN CHOOSE j \in (i + 1)..Len(text) :
            text[j] \in S /\ \A m \in (i + 1)..(j - 1) : text[m] \notin S
    ELSE Len(text) + 1

\* the characters strictly between positions i and j, entities decoded
Between(text, i, j) == [m \in 1..(j - i - 1) |-> Unescape(text[i + m])]

\* How the two full-digest formats mark sections and articles:
\*   head, headEnd  open and close the heading of a section
\*   ghost          the whole heading of the ghost picks section
\*   art            opens an article link
\*   mid            separates the two parts of the link
\*   artEnd         closes the link
\*   first          which part comes first, "title" or "url"
MarkdownSyntax ==
    [head |-> {"## "}, headEnd |-> {"\n"}, ghost |-> {"## (pen) Candidats Ghost"},
     art |-> {"- **["}, mid |-> {"]("}, artEnd |-> {")**  "}, first |-> "title"]
HtmlSyntax ==
    [head |-> {"<h2>"}, headEnd |-> {"</h2><table>"},
     ghost |-> {"<h2>(pen) Candidats Ghost</h2><table>"},
     art |-> {"<tr><td><a href=\"", "</td><td><a href=\""}, mid |-> {"\">"},
     artEnd |-> {"</a>", "</a><br><span>", "</a> <span>"}, first |-> "url"]

\* the article whose link opens at position p
ArticleAt(text, p, syn) ==
    LET q == NextAt(text, p, syn.mid)
        r == NextAt(text, q, syn.artEnd)
    IN  IF syn.first = "title"
        THEN [title |-> Between(text, p, q), url |-> Between(text, q, r)]
        ELSE [url |-> Between(text, p, q), title |-> Between(text, q, r)]

\* the sections of a rendered digest, each with its heading and its
\* articles (title and url), in the order they appear in the text
Grouping(text, syn) ==
    LET heads == Positions(text, syn.head \cup syn.ghost)
        arts == Positions(text, syn.art)
        stop(k) == IF k < Len(heads) THEN heads[k + 1] ELSE Len(text) + 1
        inside(k) == SelectSeq(arts, LAMBDA p : heads[k] < p /\ p < stop(k))
    IN  [k \in 1..Len(heads) |->
           [name |-> IF text[heads[k]] \in syn.ghost THEN GhostHeading
                     ELSE Between(text, heads[k], NextAt(text, heads[k], syn.headEnd)),
            arts |-> [n \in 1..Len(inside(k)) |-> ArticleAt(text, inside(k)[n], syn)]]]

\* the grouping of a rendered digest
MarkdownSections(text) == Grouping(text, MarkdownSyntax)
HtmlSectionsOf(text) == Grouping(text, HtmlSyntax)

\* C12: on every digest that both full-digest renderers render, the
\* structured-text and the styled-markup output have the same sections
\* (same headings, same order) with the same articles in the same order.
C12_SameGrouping ==
    ({"markdown", "html"} \subseteq DOMAIN rendered
        /\ rendered["markdown"].exc = "" /\ rendered["html"].exc = "") =>
        MarkdownSections(rendered["markdown"].val) = HtmlSectionsOf(rendered["html"].val)

\* the characters that are markup in html
MarkupChars == {"<", ">", "&", "\"", "'"}

\* the elements of a sequence
Range(l) == {l[i] : i \in DOMAIN l}

\* the articles and ghost picks of a digest, Raw or Processed
DigestArticles(d) ==
    Range(Get(d, "articles", <<>>)) \cup Range(Get(d, "ghost_picks", <<>>))
    \cup UNION {Range(Get(c, "articles", <<>>)) : c \in Range(Get(d, "categories", <<>>))}

\* C13: in the text format_digest_html returns, no character of a field of
\* the digest (title, source, reason, published, category or source
\* heading) stands raw as <, >, &, " or ': each is written as its entity,
\* and the titles read back from the text are the titles of the digest,
\* for Raw digests, Processed categories and ghost picks alike.
C13_HtmlFieldsEscaped ==
    ("html" \in DOMAIN rendered /\ rendered["html"].exc = "") =>
        LET text == rendered["html"].val
            secs == HtmlSectionsOf(text)
        IN  /\ \A i \in 1..Len(text) : text[i] \notin MarkupChars
            /\ \A k \in 1..Len(secs) : \A n \in 1..Len(secs[k].arts) :
                  \E a \in DigestArticles(data) :
                      Get(a, "title", <<>>) = secs[k].arts[n].title

\* a Processed digest with a quote in a category name and a ghost pick
\* with <, &, ' and > in its fields, rendered to html
C13_Witness ==
    /\ "html" \in DOMAIN rendered /\ rendered["html"].exc = ""
    /\ _is_processed(data)
    /\ FullB \in Range(Get(data, "ghost_picks", <<>>))
    /\ {"&lt;", "&amp;", "&gt;", "&quot;", "&#x27;"} \subseteq Range(rendered["html"].val)

\* C14: the handlers are called one at a time, in the order of the
\* configured list: the list walked is the resolved one, the calls recorded
\* follow it in strictly increasing position (so no entry is called twice),
\* and when the call for entry j starts, the call for every enabled entry
\* of a registered type before j has been made and has returned.
C14_OneAtATimeInOrder ==
    /\ idx >= 1 => outputs = ResolveOutputs(config, profile)
    /\ \A l \in 1..Len(log) :
          /\ log[l].i \in 1..Len(outputs)
          /\ log[l].i < idx \/ (log[l].i = idx /\ l = Len(log) /\ log[l].res = "raise")
          /\ \A k \in 1..(l - 1) :
                log[k].i < log[l].i /\ log[k].res \in {"true", "false"}
          /\ \A i \in 1..(log[l].i - 1) :
                Dispatchable(i) => \E k \in 1..(l - 1) : log[k].i = i

\* two different channels, the first failed and the second delivered
C14_Witness ==
    /\ pc = "returned" /\ Len(outputs) = 2 /\ Len(log) = 2
    /\ outputs[1] # outputs[2]
    /\ log[1].i = 1 /\ log[1].res = "false"
    /\ log[2].i = 2 /\ log[2].res = "true"

\* ------------------------------------------------------------------------
\* One handler call on its own
\* ------------------------------------------------------------------------

\* the values of content a channel entry of the model comes with, beside
\* having none: the two documented ones, an unrecognized one, the empty one
ContentValues == {"recap", "full_digest", "summary", ""}

\* channel entries with every field their handler requires, one per type,
\* and a chat-bot entry relying on the shared token
HandlerEntries ==
    {Tg, [type |-> "telegram_bot", chat_id |-> "42"], Mail, Nc,
     [type |-> "file", path |-> "out.md"]}

\* the entry c with content set to v
WithContent(c, v) ==
    [k \in (DOMAIN c) \cup {"content"} |-> IF k = "content" THEN v ELSE c[k]]

HandlerConfigs ==
    HandlerEntries \cup {WithContent(c, v) : c \in HandlerEntries, v \in ContentValues}

InitHandler ==
    /\ pc = "handler"
    /\ data \in RunDigests
    /\ \E c \in HandlerConfigs : config = [outputs |-> <<c>>] /\ outputs = <<c>>
    /\ profile = <<>>
    /\ idx = 1
    /\ results = EmptyResults
    /\ exitStatus = -1
    /\ log = <<>>
    /\ rendered = <<>>

\* handler(out, data) for the entry, of the given type, in some environment
HandlerCall(out_type) ==
    /\ pc = "handler"
    /\ TypeOf(outputs[1]) = out_type
    /\ \E env \in EnvFor(out_type) :
          log' = <<LogEntry(1, out_type, CallHandler(out_type, outputs[1], data, env), env)>>
    /\ pc' = "called"
    /\ idx' = 2
    /\ UNCHANGED <<profile, data, config, outputs, results, exitStatus, rendered>>

CallTelegram == HandlerCall("telegram_bot")
CallMail == HandlerCall("mail-client")
CallNextcloud == HandlerCall("nextcloud")
CallFile == HandlerCall("file")

NextHandler == CallTelegram \/ CallMail \/ CallNextcloud \/ CallFile

SpecHandler == InitHandler /\ [][NextHandler]_vars

\* the text renderer the channel entry c of the given type asks for
ExpectedText(c, type) ==
    IF "content" \in DOMAIN c
    THEN IF c["content"] = "recap" THEN "recap" ELSE "markdown"
    ELSE IF type = "telegram_bot" THEN "recap" ELSE "markdown"

\* C15: the text a handler renders is the recap when content is "recap"
\* and the markdown full digest for any other value, unrecognized ones
\* included; without content the chat-bot handler renders the recap and the
\* mail, remote-store and local-file handlers the full digest. The mail
\* handler renders the html body beside the plain one exactly when the text
\* is not the recap, the other handlers never do. A handler renders nothing
\* only when it returns false for a missing prerequisite.
C15_RendererFromContent ==
    \A k \in 1..Len(log) :
        LET e == log[k]
            c == outputs[e.i]
        IN  /\ e.eff.plain \in {"none", ExpectedText(c, e.type)}
            /\ e.eff.plain = "none" => e.res = "false" /\ MissingPrerequisite(c, e)
            /\ e.eff.rich \in {"none", "html"}
            /\ e.eff.rich = "html" =>
                  e.type = "mail-client" /\ ExpectedText(c, e.type) = "markdown"
            /\ (e.type = "mail-client" /\ e.res # "raise" /\ e.eff.plain = "markdown") =>
                  e.eff.rich = "html"

\* a mail call with an unrecognized content that rendered both bodies and
\* was delivered
C15_Witness ==
    /\ Len(log) = 1 /\ log[1].type = "mail-client"
    /\ Get(outputs[1], "content", "none") = "summary"
    /\ log[1].eff.plain = "markdown" /\ log[1].eff.rich = "html"
    /\ log[1].res = "true"

====
